---- MODULE Spec2Model ----
(***************************************************************************)
(* Diglett: a recursive DNS resolver.  This module models                  *)
(*   - the wire buffers and the name codec        (src/src/buffer.rs),     *)
(*   - the message codec                          (src/src/lib.rs),        *)
(*   - the answer cache                           (src/src/cache.rs),      *)
(*   - the resolution engine and the front-end    (src/src/main.rs).       *)
(* Bytes are integers 0..255, a buffer position is a 0-based offset, and a *)
(* decoded name (a Rust String) is the sequence of its bytes.              *)
(***************************************************************************)
EXTENDS Integers, Sequences, FiniteSets, TLC

VARIABLES
    qbuf,       \* read_qname: the buffer being decoded (with its cursor)
    qn,         \* read_qname: the locals of the loop (pos, jump, delim, output)
    qstart,     \* read_qname: the cursor position the call started at
    cpc,        \* codec: "in", "rejected", "dec", "enc", "done"
    cin,        \* codec: the received buffer
    cpkt,       \* codec: the packet DNSPacket::from_buffer decoded from cin
    cpre,       \* codec: the header counts the packet had when write was called
    cenc,       \* codec: the result of DNSPacket::write, [st, b, p]
    cdec2,      \* codec: the result of decoding the bytes written, [st, b, v]
    map,        \* cache: DNSCache.map, (name, type) -> CacheEntry or NoEntry
    now,        \* the system clock, in seconds
    kop,        \* cache: the call made last, [op, key, msg]
    kgot,       \* cache: what the last get_records returned
    kputs,      \* cache: for each key, the last two set_records (message, time)
    world,      \* upstream: what each server replies for each name
    fpc,        \* front-end: where the handler of the current request is
    req,        \* front-end: the request received, [proto, buf]
    reqpkt,     \* front-end: request_packet, once the request is decoded
    question,   \* front-end: the question popped from the request
    stack,      \* engine: the nested calls of recursive_lookup, outermost first
    eres,       \* engine: what the outermost recursive_lookup returned
    res_packet, \* front-end: the reply being built
    replies,    \* front-end: what was sent back for the current request
    sent,       \* engine: upstream queries sent for the current request
    lastq,      \* engine: the last upstream query, [server, port, qname, q_type]
    hand,       \* concurrent handlers: for each, its place and its engine's state
    net,        \* the local port 9999, the datagrams queued on it and on the way
    npc,        \* name codec: "in", "written", "read"
    nin,        \* name codec: the name to write and the buffer, [kind, pre, labels]
    nwr,        \* name codec: the result of write_qname, [st, b]
    nrd,        \* name codec: the result of read_qname on the bytes written
    tpc,        \* framing: "in", "sent"
    tbuf,       \* framing: the VecBuffer given to to_socket
    twire       \* framing: the bytes to_socket wrote to the stream

qvars == <<qbuf, qn, qstart>>
cvars == <<cpc, cin, cpkt, cpre, cenc, cdec2>>
kvars == <<map, now, kop, kgot, kputs>>
evars == <<world, fpc, req, reqpkt, question, stack, eres, res_packet, replies,
           sent, lastq>>
nvars == <<hand, net>>
bvars == <<npc, nin, nwr, nrd, tpc, tbuf, twire>>
vars == <<qbuf, qn, qstart, cpc, cin, cpkt, cpre, cenc, cdec2,
          map, now, kop, kgot, kputs,
          world, fpc, req, reqpkt, question, stack, eres, res_packet, replies,
          sent, lastq, hand, net,
          npc, nin, nwr, nrd, tpc, tbuf, twire>>

(***************************************************************************)
(* Bounds of the model.                                                    *)
(***************************************************************************)
MaxBufLen == 4          \* longest buffer content given to read_qname
MaxHops == 11           \* read_qname is followed for at most this many pointer hops
MaxRecs == 2            \* most records in a message given to the codec
MaxTime == 2            \* the clock stops here
MaxIter == 17           \* one recursive_lookup is followed for this many queries
MaxDepth == 9           \* recursive_lookup is followed to this nesting depth
BigAnswers == 26        \* the answers of the largest upstream response
MaxDup == 1             \* datagrams the network delivers twice
MaxLabels == 5          \* labels of the longest name given to read_qname
MaxNameLabels == 2      \* labels of a name given to write_qname
MaxFrame == 60          \* longest of the short messages given to to_socket

(***************************************************************************)
(* Program constants.                                                      *)
(***************************************************************************)
ArrayCap == 512         \* ArrayBuffer: buf: [u8; 512]
LabelMax == 63          \* write_qname: if len > 63
\* The caps the specification names for the decoder and the engine.
HopCap == 10
IterCap == 16
DepthCap == 8
NameLimit == 255

\* F applied to the value of x, with x evaluated once (TLC evaluates the
\* arguments of a recursive operator again at each use).
Bind(x, F(_)) == CHOOSE res \in {F(y) : y \in {x}} : TRUE

\* the sequences of ss, one after the other
RECURSIVE Flatten(_)
Flatten(ss) ==
    IF ss = <<>> THEN <<>>
    ELSE Head(ss) \o Bind(Tail(ss), LAMBDA t : Flatten(t))

(***************************************************************************)
(* Wire buffers.  A buffer is [kind, buf, pos].  The fixed flavour is a    *)
(* zero-initialised array of 512 bytes: buf holds the bytes received or    *)
(* written so far and every byte after them, up to 512, reads as 0.        *)
(***************************************************************************)
NewBuffer(kind) == [kind |-> kind, buf |-> <<>>, pos |-> 0]

BufLen(b) == IF b.kind = "array" THEN ArrayCap ELSE Len(b.buf)

ByteAt(b, i) == IF i < Len(b.buf) THEN b.buf[i + 1] ELSE 0

\* get(pos)
Get(b, pos) ==
    IF pos >= BufLen(b) THEN [st |-> "err", v |-> 0]
    ELSE [st |-> "ok", v |-> ByteAt(b, pos)]

\* get_range(pos, len): the slice buf[pos..pos+len] panics when it runs past
\* the end of the buffer.
GetRange(b, pos, len) ==
    IF pos >= BufLen(b) THEN [st |-> "err", v |-> <<>>]
    ELSE IF pos + len > BufLen(b) THEN [st |-> "panic", v |-> <<>>]
    ELSE [st |-> "ok", v |-> [i \in 1..len |-> ByteAt(b, pos + i - 1)]]

\* a seek that leaves the cursor where it is
SeekStay(b, pos) == [st |-> "ok", b |-> b]

\* seek(pos)
Seek(b, pos) ==
    IF pos > BufLen(b) THEN [st |-> "err", b |-> b]
    ELSE [st |-> "ok", b |-> [b EXCEPT !.pos = pos]]

\* step(steps)
Step(b, steps) ==
    IF b.pos + steps > BufLen(b) THEN [st |-> "err", b |-> b]
    ELSE [st |-> "ok", b |-> [b EXCEPT !.pos = b.pos + steps]]

\* read(): one byte at the cursor
Read(b) ==
    IF b.pos >= BufLen(b) THEN [st |-> "err", b |-> b, v |-> 0]
    ELSE [st |-> "ok", b |-> [b EXCEPT !.pos = b.pos + 1], v |-> ByteAt(b, b.pos)]

(***************************************************************************)
(* read_qname.  String::from_utf8_lossy is the identity on ASCII bytes and *)
(* to_lowercase maps 'A'..'Z' to 'a'..'z'; the model's labels are ASCII.   *)
(***************************************************************************)
ToLower(c) == IF c >= 65 /\ c <= 90 THEN c + 32 ELSE c

LowerAll(s) == [i \in 1..Len(s) |-> ToLower(s[i])]

\* (len & 0xC0) == 0xC0
IsPointer(len) == len >= 192

\* ((len as u16) ^ 0xC0) << 8 | byte2
PointerOffset(len, byte2) == (len - 192) * 256 + byte2

QnameStart(b) ==
    [st |-> "run", pos |-> b.pos, jump |-> FALSE, delim |-> FALSE,
     out |-> <<>>, hops |-> 0]

\* One iteration of the loop of read_qname (and, on break, the seek that
\* follows the loop).  st: "run" the loop goes on, "ok" the call returned
\* Ok, "err" it returned Err, "panic" it panicked.  hops counts the pointers
\* followed; it is not a variable of the code.
QnameIter(b, l) ==
    LET g == Get(b, l.pos) IN
    IF g.st # "ok" THEN [b |-> b, l |-> [l EXCEPT !.st = "err"]]
    ELSE IF IsPointer(g.v) THEN
        LET s  == IF l.jump THEN [st |-> "ok", b |-> b] ELSE Seek(b, l.pos + 2)
            g2 == Get(s.b, l.pos + 1)
        IN  IF s.st # "ok" \/ g2.st # "ok"
            THEN [b |-> s.b, l |-> [l EXCEPT !.st = "err"]]
            ELSE [b |-> s.b,
                  l |-> [l EXCEPT !.pos = PointerOffset(g.v, g2.v),
                                  !.jump = TRUE,
                                  !.hops = l.hops + 1]]
    ELSE IF g.v = 0 THEN
        LET s == IF l.jump THEN [st |-> "ok", b |-> b] ELSE Seek(b, l.pos + 1)
        IN  [b |-> s.b, l |-> [l EXCEPT !.pos = l.pos + 1, !.st = s.st]]
    ELSE
        LET r == GetRange(b, l.pos + 1, g.v) IN
        IF r.st # "ok" THEN [b |-> b, l |-> [l EXCEPT !.pos = l.pos + 1, !.st = r.st]]
        ELSE [b |-> b,
              l |-> [l EXCEPT !.pos = l.pos + 1 + g.v,
                              !.delim = TRUE,
                              !.out = l.out
                                      \o (IF l.delim THEN <<46>> ELSE <<>>)
                                      \o LowerAll(r.v)]]

\* read_qname as one call.  The position the loop reads next depends on the
\* buffer and the current position alone, so a run that comes to a pointer
\* it has already followed repeats itself for ever and never returns:
\* st = "diverge".  seen is the set of the pointer positions followed.
RECURSIVE QnameLoop(_, _, _)
QnameLoop(b, l, seen) ==
    IF l.st # "run" THEN [b |-> b, l |-> l]
    ELSE IF l.pos \in seen THEN [b |-> b, l |-> [l EXCEPT !.st = "diverge"]]
    ELSE Bind(<<QnameIter(b, l), l.pos, seen>>,
              LAMBDA x : QnameLoop(x[1].b, x[1].l,
                             IF x[1].l.hops > l.hops THEN x[3] \cup {x[2]}
                                                     ELSE x[3]))

\* The readers below take and return a cursor result [st, b, v]: st is "ok"
\* or the failure that `?` propagates, b the buffer, v the value read.
ReadQname(r) ==
    IF r.st # "ok" THEN r
    ELSE LET q == QnameLoop(r.b, QnameStart(r.b), {})
         IN  [st |-> q.l.st, b |-> q.b, v |-> q.l.out]

ReadU8(r) ==
    IF r.st # "ok" THEN r
    ELSE LET x == Read(r.b) IN [st |-> x.st, b |-> x.b, v |-> x.v]

\* read_u16: (read() << 8) | read()
ReadU16(r) ==
    LET hi == ReadU8(r)
        lo == ReadU8(hi)
    IN  IF lo.st # "ok" THEN [lo EXCEPT !.v = 0]
        ELSE [lo EXCEPT !.v = hi.v * 256 + lo.v]

\* read_u32: (read_u16() << 16) | read_u16()
ReadU32(r) ==
    LET hi == ReadU16(r)
        lo == ReadU16(hi)
    IN  IF lo.st # "ok" THEN [lo EXCEPT !.v = 0]
        ELSE [lo EXCEPT !.v = hi.v * 65536 + lo.v]

StepR(r, n) ==
    IF r.st # "ok" THEN r
    ELSE LET x == Step(r.b, n) IN [st |-> x.st, b |-> x.b, v |-> 0]

Cursor(b) == [st |-> "ok", b |-> b, v |-> 0]

(***************************************************************************)
(* Writing.  ArrayBuffer::write stores at the cursor and fails at 512;     *)
(* VecBuffer::write pushes at the end of the vector.  The writers take and *)
(* return [st, b].                                                         *)
(***************************************************************************)
Write(b, val) ==
    IF b.kind = "array" THEN
        IF b.pos >= ArrayCap THEN [st |-> "err", b |-> b]
        ELSE [st |-> "ok",
              b |-> [b EXCEPT
                  !.buf = [i \in 1..(IF b.pos + 1 > Len(b.buf) THEN b.pos + 1
                                                               ELSE Len(b.buf)) |->
                              IF i = b.pos + 1 THEN val
                              ELSE IF i <= Len(b.buf) THEN b.buf[i] ELSE 0],
                  !.pos = b.pos + 1]]
    ELSE [st |-> "ok",
          b |-> [b EXCEPT !.buf = Append(b.buf, val), !.pos = b.pos + 1]]

WriteU8(w, val) == IF w.st # "ok" THEN w ELSE Write(w.b, val)

\* the bytes of s written one after the other, up to the first failure
\* (the first half of s, then the second: the recursion stays shallow)
RECURSIVE WriteAll(_, _)
WriteAll(w, s) ==
    IF s = <<>> \/ w.st # "ok" THEN w
    ELSE IF Len(s) = 1 THEN WriteU8(w, s[1])
    ELSE Bind(<<WriteAll(w, SubSeq(s, 1, Len(s) \div 2)),
                SubSeq(s, Len(s) \div 2 + 1, Len(s))>>,
              LAMBDA x : WriteAll(x[1], x[2]))

\* write_u16: (val >> 8) as u8, then (val & 0xFF) as u8
WriteU16(w, val) == WriteU8(WriteU8(w, (val \div 256) % 256), val % 256)

\* write_u32: write_u16((val >> 16) as u16), then write_u16((val & 0xFFFF) as u16)
WriteU32(w, val) == WriteU16(WriteU16(w, (val \div 65536) % 65536), val % 65536)

\* qname.split('.'): the pieces between the '.' bytes; "" gives one empty piece.
\* cur is the start of the first piece, s what follows it.
RECURSIVE SplitDot(_, _)
SplitDot(s, cur) ==
    LET dots == SelectSeq([i \in 1..Len(s) |-> i], LAMBDA i : s[i] = 46) IN
    IF dots = <<>> THEN <<cur \o s>>
    ELSE <<cur \o SubSeq(s, 1, dots[1] - 1)>>
         \o Bind(SubSeq(s, dots[1] + 1, Len(s)), LAMBDA t : SplitDot(t, <<>>))

RECURSIVE WriteLabels(_, _)
WriteLabels(w, labels) ==
    IF labels = <<>> \/ w.st # "ok" THEN w
    ELSE IF Len(Head(labels)) > LabelMax THEN [w EXCEPT !.st = "err"]
    ELSE Bind(<<WriteAll(WriteU8(w, Len(Head(labels))), Head(labels)),
                Tail(labels)>>,
              LAMBDA x : WriteLabels(x[1], x[2]))

\* write_qname
WriteQname(w, qname) == WriteU8(WriteLabels(w, SplitDot(qname, <<>>)), 0)

Writer(b) == [st |-> "ok", b |-> b]

\* The variables of the name codec and of the framing when a specification
\* does not use them.
NameIdle ==
    /\ npc = "idle"
    /\ nin = [kind |-> "vec", pre |-> <<>>, labels |-> <<>>]
    /\ nwr = Writer(NewBuffer("vec"))
    /\ nrd = Cursor(NewBuffer("vec"))

FrameIdle ==
    /\ tpc = "idle"
    /\ tbuf = NewBuffer("vec")
    /\ twire = <<>>

(***************************************************************************)
(* Message codec (lib.rs).                                                 *)
(***************************************************************************)
\* RCode::from_num
RCodeFromNum(num) ==
    CASE num = 1 -> "FORMERR"
      [] num = 2 -> "SERVFAIL"
      [] num = 3 -> "NXDOMAIN"
      [] num = 4 -> "NOTIMP"
      [] num = 5 -> "REFUSED"
      [] OTHER   -> "NOERROR"

\* `res_code as u16`: the discriminant of the enum
RCodeToNum(rc) ==
    CASE rc = "NOERROR"  -> 0
      [] rc = "FORMERR"  -> 1
      [] rc = "SERVFAIL" -> 2
      [] rc = "NXDOMAIN" -> 3
      [] rc = "NOTIMP"   -> 4
      [] rc = "REFUSED"  -> 5

\* DNSHeader::new
NewHeader ==
    [id |-> 0, query_response |-> FALSE, opcode |-> 0, auth_answer |-> FALSE,
     truncated_msg |-> FALSE, recur_desired |-> FALSE, recur_available |-> FALSE,
     z_res |-> FALSE, res_code |-> "NOERROR",
     q_count |-> 0, an_count |-> 0, ns_count |-> 0, ad_count |-> 0]

\* (flags & (1 << k)) > 0
Bit(flags, k) == (flags \div (2 ^ k)) % 2 = 1

B2N(x) == IF x THEN 1 ELSE 0

\* The readers of one field: a name, or an integer of 8, 16 or 32 bits.
ReadField(r, f) ==
    CASE f = "name" -> ReadQname(r)
      [] f = "u8"   -> ReadU8(r)
      [] f = "u16"  -> ReadU16(r)
      [] f = "u32"  -> ReadU32(r)

\* The fields of `schema` read one after the other, each with `?`: the
\* values read, in order, or the first failure.
RECURSIVE ReadFields(_, _, _)
ReadFields(r, schema, acc) ==
    IF r.st # "ok" THEN r
    ELSE IF schema = <<>> THEN [r EXCEPT !.v = acc]
    ELSE Bind(<<ReadField(r, Head(schema)), Tail(schema), acc>>,
              LAMBDA x : ReadFields(x[1], x[2], Append(x[3], x[1].v)))

WriteField(w, f) ==
    CASE f[1] = "name" -> WriteQname(w, f[2])
      [] f[1] = "u8"   -> WriteU8(w, f[2])
      [] f[1] = "u16"  -> WriteU16(w, f[2])
      [] f[1] = "u32"  -> WriteU32(w, f[2])

\* The fields <<kind, value>> of `fields` written one after the other, each
\* with `?`.
RECURSIVE WriteFields(_, _)
WriteFields(w, fields) ==
    IF fields = <<>> \/ w.st # "ok" THEN w
    ELSE Bind(<<WriteField(w, Head(fields)), Tail(fields)>>,
              LAMBDA x : WriteFields(x[1], x[2]))

\* The header DNSHeader::read makes of the id, the flag word and the counts.
HeaderOf(id, flags, qc, anc, nsc, adc) ==
    [id |-> id,
     query_response |-> Bit(flags, 15),
     opcode |-> (flags \div 2048) % 16,
     auth_answer |-> Bit(flags, 10),
     truncated_msg |-> Bit(flags, 9),
     recur_desired |-> Bit(flags, 8),
     recur_available |-> Bit(flags, 7),
     z_res |-> (flags \div 16) % 8 > 0,
     res_code |-> RCodeFromNum(flags % 16),
     q_count |-> qc, an_count |-> anc, ns_count |-> nsc, ad_count |-> adc]

\* DNSHeader::read
HeaderRead(r) ==
    Bind(ReadFields(r, <<"u16", "u16", "u16", "u16", "u16", "u16">>, <<>>),
         LAMBDA x : IF x.st # "ok" THEN [x EXCEPT !.v = NewHeader]
                    ELSE [x EXCEPT !.v = HeaderOf(x.v[1], x.v[2], x.v[3],
                                                  x.v[4], x.v[5], x.v[6])])

\* The flag word DNSHeader::write packs (opcode is at most 15, so the fields
\* do not overlap and | is +).
HeaderFlags(h) ==
    B2N(h.query_response) * 32768 + h.opcode * 2048 + B2N(h.auth_answer) * 1024
    + B2N(h.truncated_msg) * 512 + B2N(h.recur_desired) * 256
    + B2N(h.recur_available) * 128 + B2N(h.z_res) * 16 + RCodeToNum(h.res_code)

\* DNSHeader::write
HeaderWrite(w, h) ==
    WriteFields(w, <<<<"u16", h.id>>, <<"u16", HeaderFlags(h)>>,
                     <<"u16", h.q_count>>, <<"u16", h.an_count>>,
                     <<"u16", h.ns_count>>, <<"u16", h.ad_count>>>>)

\* QueryType::from_num
QTypeFromNum(num) ==
    CASE num = 1  -> [t |-> "A", n |-> 0]
      [] num = 2  -> [t |-> "NS", n |-> 0]
      [] num = 5  -> [t |-> "CNAME", n |-> 0]
      [] num = 6  -> [t |-> "SOA", n |-> 0]
      [] num = 15 -> [t |-> "MX", n |-> 0]
      [] num = 28 -> [t |-> "AAAA", n |-> 0]
      [] OTHER    -> [t |-> "UNKNOWN", n |-> num]

\* QueryType::to_num
QTypeToNum(q) ==
    CASE q.t = "UNKNOWN" -> q.n
      [] q.t = "A"       -> 1
      [] q.t = "NS"      -> 2
      [] q.t = "CNAME"   -> 5
      [] q.t = "SOA"     -> 6
      [] q.t = "MX"      -> 15
      [] q.t = "AAAA"    -> 28

QTypeA == [t |-> "A", n |-> 0]

\* DNSQuestion::read (the class is read and dropped)
QuestionRead(r) ==
    Bind(ReadFields(r, <<"name", "u16", "u16">>, <<>>),
         LAMBDA x : IF x.st # "ok" THEN x
                    ELSE [x EXCEPT !.v = [name |-> x.v[1],
                                          q_type |-> QTypeFromNum(x.v[2])]])

\* DNSQuestion::write
QuestionWrite(w, q) ==
    WriteFields(w, <<<<"name", q.name>>, <<"u16", QTypeToNum(q.q_type)>>,
                     <<"u16", 1>>>>)

\* DNSRecord::read: what every record starts with (name, type, class, ttl,
\* rdlength), and what follows it for each type.  An A record reads a u32
\* and makes the address of its four bytes, (raw_ip >> 24) as u8 first:
\* the four bytes in the order read.
CommonSchema == <<"name", "u16", "u16", "u32", "u16">>

PayloadSchema(t) ==
    CASE t = "A"     -> <<"u8", "u8", "u8", "u8">>
      [] t = "NS"    -> <<"name">>
      [] t = "CNAME" -> <<"name">>
      [] t = "MX"    -> <<"u16", "name">>
      [] t = "AAAA"  -> <<"u32", "u32", "u32", "u32">>
      [] t = "SOA"   -> <<"name", "name", "u32", "u32", "u32", "u32", "u32">>

\* The variant DNSRecord::read builds from the common fields c and the
\* payload p.
MakeRecord(c, p) ==
    LET q == QTypeFromNum(c[2]) IN
    CASE q.t = "A" ->
             [kind |-> "A", name |-> c[1], q_type |-> q, class |-> c[3],
              ttl |-> c[4], len |-> c[5], addr |-> p]
      [] q.t \in {"NS", "CNAME"} ->
             [kind |-> q.t, name |-> c[1], q_type |-> q, class |-> c[3],
              ttl |-> c[4], len |-> c[5], host |-> p[1]]
      [] q.t = "MX" ->
             [kind |-> "MX", name |-> c[1], q_type |-> q, class |-> c[3],
              ttl |-> c[4], len |-> c[5], priority |-> p[1], host |-> p[2]]
      [] q.t = "AAAA" ->
             [kind |-> "AAAA", name |-> c[1], q_type |-> q, class |-> c[3],
              ttl |-> c[4], len |-> c[5], addr |-> p]
      [] q.t = "SOA" ->
             [kind |-> "SOA", name |-> c[1], q_type |-> q, class |-> c[3],
              ttl |-> c[4], len |-> c[5], mname |-> p[1], rname |-> p[2],
              serial |-> p[3], refresh |-> p[4], retry |-> p[5],
              expire |-> p[6], minimum |-> p[7]]
      [] OTHER ->
             [kind |-> "UNKNOWN", name |-> c[1], q_type |-> q, class |-> c[3],
              ttl |-> c[4], len |-> c[5]]

\* The payload of a record of type t and rdlength len: the fields of the
\* type, or, for a type the codec does not know, buf.step(len).
PayloadRead(r, t, len) ==
    IF t = "UNKNOWN" THEN [StepR(r, len) EXCEPT !.v = <<>>]
    ELSE ReadFields(r, PayloadSchema(t), <<>>)

\* DNSRecord::read
RecordRead(r) ==
    Bind(ReadFields(r, CommonSchema, <<>>),
         LAMBDA c :
            IF c.st # "ok" THEN c
            ELSE Bind(PayloadRead(c, QTypeFromNum(c.v[2]).t, c.v[5]),
                      LAMBDA p : IF p.st # "ok" THEN p
                                 ELSE [p EXCEPT !.v = MakeRecord(c.v, p.v)]))

\* The fields every variant but UNKNOWN writes first.
CommonFields(rec) ==
    <<<<"name", rec.name>>, <<"u16", QTypeToNum(rec.q_type)>>,
      <<"u16", rec.class>>, <<"u32", rec.ttl>>, <<"u16", rec.len>>>>

\* The fields each variant writes after them (an A record writes the four
\* octets of its address; an AAAA record writes its eight segments, two to
\* each u32 read).
PayloadFields(rec) ==
    CASE rec.kind = "A"     -> <<<<"u8", rec.addr[1]>>, <<"u8", rec.addr[2]>>,
                                 <<"u8", rec.addr[3]>>, <<"u8", rec.addr[4]>>>>
      [] rec.kind = "NS"    -> <<<<"name", rec.host>>>>
      [] rec.kind = "CNAME" -> <<<<"name", rec.host>>>>
      [] rec.kind = "MX"    -> <<<<"u16", rec.priority>>, <<"name", rec.host>>>>
      [] rec.kind = "AAAA"  -> <<<<"u32", rec.addr[1]>>, <<"u32", rec.addr[2]>>,
                                 <<"u32", rec.addr[3]>>, <<"u32", rec.addr[4]>>>>
      [] rec.kind = "SOA"   -> <<<<"name", rec.mname>>, <<"name", rec.rname>>,
                                 <<"u32", rec.serial>>, <<"u32", rec.refresh>>,
                                 <<"u32", rec.retry>>, <<"u32", rec.expire>>,
                                 <<"u32", rec.minimum>>>>

\* DNSRecord::write: an UNKNOWN record writes nothing
RecordWrite(w, rec) ==
    IF rec.kind = "UNKNOWN" THEN w
    ELSE WriteFields(w, CommonFields(rec) \o PayloadFields(rec))

\* DNSRecord::get_ttl
GetTtl(rec) == rec.ttl

\* DNSPacket::new
NewPacket ==
    [header |-> NewHeader, questions |-> <<>>, answers |-> <<>>,
     authority |-> <<>>, addtional |-> <<>>]

RECURSIVE ReadQuestions(_, _, _)
ReadQuestions(r, n, acc) ==
    IF r.st # "ok" THEN r
    ELSE IF n = 0 THEN [r EXCEPT !.v = acc]
    ELSE Bind(<<QuestionRead(r), n, acc>>,
              LAMBDA x : IF x[1].st # "ok" THEN x[1]
                         ELSE ReadQuestions(x[1], x[2] - 1, Append(x[3], x[1].v)))

RECURSIVE ReadRecords(_, _, _)
ReadRecords(r, n, acc) ==
    IF r.st # "ok" THEN r
    ELSE IF n = 0 THEN [r EXCEPT !.v = acc]
    ELSE Bind(<<RecordRead(r), n, acc>>,
              LAMBDA x : IF x[1].st # "ok" THEN x[1]
                         ELSE ReadRecords(x[1], x[2] - 1, Append(x[3], x[1].v)))

\* DNSPacket::from_buffer: [st, b, v] with v the packet when st = "ok"
FromBuffer(b) ==
    Bind(HeaderRead(Cursor(b)), LAMBDA h :
    Bind(ReadQuestions(h, h.v.q_count, <<>>), LAMBDA qs :
    Bind(ReadRecords(qs, h.v.an_count, <<>>), LAMBDA an :
    Bind(ReadRecords(an, h.v.ns_count, <<>>), LAMBDA ns :
    Bind(ReadRecords(ns, h.v.ad_count, <<>>), LAMBDA ad :
        IF ad.st # "ok" THEN [ad EXCEPT !.v = NewPacket]
        ELSE [ad EXCEPT !.v = [header |-> h.v, questions |-> qs.v,
                               answers |-> an.v, authority |-> ns.v,
                               addtional |-> ad.v]])))))

RECURSIVE WriteQuestions(_, _)
WriteQuestions(w, qs) ==
    IF qs = <<>> \/ w.st # "ok" THEN w
    ELSE Bind(<<QuestionWrite(w, Head(qs)), Tail(qs)>>,
              LAMBDA x : WriteQuestions(x[1], x[2]))

RECURSIVE WriteRecords(_, _)
WriteRecords(w, recs) ==
    IF recs = <<>> \/ w.st # "ok" THEN w
    ELSE Bind(<<RecordWrite(w, Head(recs)), Tail(recs)>>,
              LAMBDA x : WriteRecords(x[1], x[2]))

\* write without the four assignments: the header goes out as it was
SyncCountsStale(p) == p.header

\* The header after the four assignments that open DNSPacket::write
\* (`len() as u16`).
SyncCounts(p) ==
    [p.header EXCEPT !.q_count = Len(p.questions) % 65536,
                     !.an_count = Len(p.answers) % 65536,
                     !.ns_count = Len(p.authority) % 65536,
                     !.ad_count = Len(p.addtional) % 65536]

\* DNSPacket::write: [st, b, p] with p the packet after the call
PacketWrite(b, p) ==
    Bind(SyncCounts(p), LAMBDA h :
    Bind(HeaderWrite(Writer(b), h), LAMBDA w1 :
    Bind(WriteQuestions(w1, p.questions), LAMBDA w2 :
    Bind(WriteRecords(w2, p.answers), LAMBDA w3 :
    Bind(WriteRecords(w3, p.authority), LAMBDA w4 :
    Bind(WriteRecords(w4, p.addtional), LAMBDA w5 :
        [st |-> w5.st, b |-> w5.b, p |-> [p EXCEPT !.header = h]]))))))

\* The variables of the codec run when a specification does not use them.
CodecIdle ==
    /\ cpc = "idle"
    /\ cin = NewBuffer("vec")
    /\ cpkt = NewPacket
    /\ cpre = <<0, 0, 0, 0>>
    /\ cenc = [st |-> "ok", b |-> NewBuffer("vec"), p |-> NewPacket]
    /\ cdec2 = [st |-> "ok", b |-> NewBuffer("vec"), v |-> NewPacket]

QnameIdle ==
    /\ qbuf = NewBuffer("vec")
    /\ qn = QnameStart(NewBuffer("vec"))
    /\ qstart = 0

(***************************************************************************)
(* Names and addresses of the model: the name a.b a client asks for, the   *)
(* zone b above it, the name server n.b of that zone, the root hint and    *)
(* the address of a second server.                                         *)
(***************************************************************************)
QueryName == <<97, 46, 98>>

ZoneName == <<98>>

HostName == <<110, 46, 98>>

\* "198.41.0.4".parse::<Ipv4Addr>()
HostName2 == <<109, 46, 98>>

AliasName == <<99, 46, 98>>

RootHint == <<198, 41, 0, 4>>

ServerAddr == <<192, 5, 6, 30>>

(***************************************************************************)
(* Cache (cache.rs).  The map takes a key (name, type) to a CacheEntry     *)
(* [records, timestamp], or to NoEntry when the key is not in the HashMap. *)
(* Time is counted in seconds; the clock does not go backwards.            *)
(***************************************************************************)
NoEntry == [records |-> <<>>, timestamp |-> -1]

\* Duration::new(record.get_ttl() as u64, 0) greater-or-equal: a record is
\* kept through the second in which its TTL runs out
IsLiveInclusive(rec, timestamp, t) == GetTtl(rec) >= t - timestamp

\* Duration::new(record.get_ttl() as u64, 0)
\*     > timestamp_now.duration_since(entry.timestamp).unwrap()
IsLive(rec, timestamp, t) == GetTtl(rec) > t - timestamp

\* From<Vec<DNSRecord>> for DNSPacket
PacketFrom(records) == [NewPacket EXCEPT !.answers = records]

\* DNSCache::get_records at time t: [hit, packet]
GetRecords(m, key, t) ==
    IF m[key] = NoEntry THEN [hit |-> FALSE, packet |-> NewPacket]
    ELSE LET records == SelectSeq(m[key].records,
                                  LAMBDA rec : IsLive(rec, m[key].timestamp, t))
         IN  IF Len(records) = 0 THEN [hit |-> FALSE, packet |-> NewPacket]
             ELSE [hit |-> TRUE, packet |-> PacketFrom(records)]

\* set_records that adds the records to those the key already has
SetRecordsMerge(m, key, packet, t) ==
    [m EXCEPT ![key] = [records |-> m[key].records \o packet.answers
                                    \o packet.authority \o packet.addtional,
                        timestamp |-> t]]

\* DNSCache::set_records at time t: the map after the call
SetRecords(m, key, packet, t) ==
    [m EXCEPT ![key] = [records |-> packet.answers \o packet.authority
                                    \o packet.addtional,
                        timestamp |-> t]]

CacheNames == {QueryName, HostName}

CacheKeys == {<<n, QTypeA>> : n \in CacheNames}

EmptyMap == [k \in CacheKeys |-> NoEntry]

\* The variables of the cache when a specification does not use them.
CacheIdle ==
    /\ map = EmptyMap
    /\ now = 0
    /\ kop = [op |-> "none", key |-> <<QueryName, QTypeA>>]
    /\ kgot = [hit |-> FALSE, packet |-> NewPacket]
    /\ kputs = [k \in CacheKeys |-> <<>>]

(***************************************************************************)
(* Resolution engine and front-end (main.rs, lib.rs).                      *)
(***************************************************************************)
None == [some |-> FALSE, v |-> <<>>]

Some(x) == [some |-> TRUE, v |-> x]

\* qname.ends_with(name), on the bytes of the two strings
EndsWith(s, suf) ==
    /\ Len(suf) <= Len(s)
    /\ SubSeq(s, Len(s) - Len(suf) + 1, Len(s)) = suf

\* DNSPacket::get_ns: the NS records of the authority section whose owner
\* the query name ends with, in order
GetNs(p, qname) ==
    SelectSeq(p.authority, LAMBDA r : r.kind = "NS" /\ EndsWith(qname, r.name))

\* the first A record of the additional section that names any NS host
GetResolvedNsByAdditional(p, qname) ==
    LET ns   == GetNs(p, qname)
        glue == SelectSeq(p.addtional,
                          LAMBDA r : r.kind = "A"
                                     /\ \E i \in 1..Len(ns) : ns[i].host = r.name)
    IN  IF glue = <<>> THEN None ELSE Some(glue[1].addr)

\* DNSPacket::get_resolved_ns
GetResolvedNs(p, qname) ==
    LET ns    == GetNs(p, qname)
        glue  == Flatten([i \in 1..Len(ns) |->
                     SelectSeq(p.addtional,
                               LAMBDA r : r.kind = "A" /\ r.name = ns[i].host)])
    IN  IF glue = <<>> THEN None ELSE Some(glue[1].addr)

\* DNSPacket::get_unresolved_ns
GetUnresolvedNs(p, qname) ==
    LET ns == GetNs(p, qname) IN
    IF ns = <<>> THEN None ELSE Some(ns[1].host)

\* DNSPacket::get_random_a
GetRandomA(p) ==
    LET a == SelectSeq(p.answers, LAMBDA r : r.kind = "A") IN
    IF a = <<>> THEN None ELSE Some(a[1].addr)

NoResult == [st |-> "none", packet |-> NewPacket]

NoQuestion == [name |-> <<>>, q_type |-> QTypeFromNum(0)]

NoQuery == [server |-> <<0, 0, 0, 0>>, port |-> 0, qname |-> <<>>, q_type |-> QTypeA]

\* A call of recursive_lookup: its arguments, its ns, the response it holds
\* while it awaits a nested call, and the number of queries it has sent
\* (iters, which the code does not keep).
NewFrame(qname, q_type) ==
    [qname |-> qname, q_type |-> q_type, ns |-> RootHint, iters |-> 0,
     response |-> NewPacket]

\* The call on top of st has returned Ok(resp) to its caller: a caller that
\* finds an A record in it goes on with that address; one that does not
\* returns the response it holds to its own caller.
RECURSIVE Unwind(_, _)
Unwind(st, resp) ==
    IF st = <<>> THEN [stack |-> <<>>, res |-> [st |-> "ok", packet |-> resp]]
    ELSE IF GetRandomA(resp).some
         THEN [stack |-> [st EXCEPT ![Len(st)].ns = GetRandomA(resp).v],
               res |-> NoResult]
    ELSE Bind(<<SubSeq(st, 1, Len(st) - 1), st[Len(st)].response>>,
              LAMBDA x : Unwind(x[1], x[2]))

\* a response that stops at NXDOMAIN only
ConclusiveNxOnly(resp) == resp.header.res_code = "NXDOMAIN"

\* the responses the loop returns at once
Conclusive(resp) ==
    \/ resp.answers # <<>> /\ resp.header.res_code = "NOERROR"
    \/ resp.header.res_code = "NXDOMAIN"

\* One pass of the loop of the call on top of st, whose query got `reply`
\* ([st, packet]: st = "err" when the lookup failed): the calls that remain
\* and, when the outermost call has returned, its result.
LoopBody(st, reply) ==
    LET n    == Len(st)
        top  == st[n]
        rest == SubSeq(st, 1, n - 1)
        resp == reply.packet
    IN  IF reply.st # "ok"
            THEN [stack |-> <<>>, res |-> [st |-> "err", packet |-> NewPacket]]
        ELSE IF Conclusive(resp)
            THEN Unwind(rest, resp)
        ELSE IF GetResolvedNs(resp, top.qname).some
            THEN [stack |-> [st EXCEPT ![n].ns = GetResolvedNs(resp, top.qname).v],
                  res |-> NoResult]
        ELSE IF ~GetUnresolvedNs(resp, top.qname).some
            THEN Unwind(rest, resp)
        ELSE [stack |-> Append([st EXCEPT ![n].response = resp],
                               NewFrame(GetUnresolvedNs(resp, top.qname).v, QTypeA)),
              res |-> NoResult]

\* res_packet as handle_request and handle_connection start it
ReplyHeader(request) ==
    [NewPacket EXCEPT !.header.id = request.header.id,
                      !.header.recur_desired = request.header.recur_desired,
                      !.header.recur_available = TRUE,
                      !.header.query_response = TRUE]

\* the branch of a request without a question that leaves the rcode alone
ReplyNoQuestionUnset(p) == p

\* } else { res_packet.header.res_code = RCode::FORMERR; }
ReplyNoQuestion(p) == [p EXCEPT !.header.res_code = "FORMERR"]

\* res_packet left as it is when recursive_lookup has failed
ReplyResultNoFail(p, q, result) ==
    IF result.st = "ok"
    THEN [p EXCEPT !.questions = Append(p.questions, q),
                   !.header.res_code = result.packet.header.res_code,
                   !.answers = p.answers \o result.packet.answers,
                   !.authority = p.authority \o result.packet.authority,
                   !.addtional = p.addtional \o result.packet.addtional]
    ELSE p

\* res_packet once recursive_lookup has returned `result` for `q`
ReplyResult(p, q, result) ==
    IF result.st = "ok"
    THEN [p EXCEPT !.questions = Append(p.questions, q),
                   !.header.res_code = result.packet.header.res_code,
                   !.answers = p.answers \o result.packet.answers,
                   !.authority = p.authority \o result.packet.authority,
                   !.addtional = p.addtional \o result.packet.addtional]
    ELSE [p EXCEPT !.header.res_code = "SERVFAIL"]

\* The buffer flavour of a transport.
BufferKind(proto) == IF proto = "UDP" THEN "array" ELSE "vec"

(***************************************************************************)
(* Upstream servers.  A server's reply to a query is one of a few kinds;   *)
(* world gives the kind for each server and name.                          *)
(***************************************************************************)
ARecord(name, addr) ==
    [kind |-> "A", name |-> name, q_type |-> QTypeA, class |-> 1, ttl |-> 60,
     len |-> 4, addr |-> addr]

NSRecord(name, host) ==
    [kind |-> "NS", name |-> name, q_type |-> QTypeFromNum(2), class |-> 1,
     ttl |-> 60, len |-> Len(host) + 2, host |-> host]

\* a record of a type the decoder has no variant for, as it decodes it
UnknownRecord(name, q_type) ==
    [kind |-> "UNKNOWN", name |-> name, q_type |-> q_type, class |-> 1,
     ttl |-> 60, len |-> 2]

\* the record that answers (name, q_type)
AnswerRecord(name, q_type) ==
    IF q_type.t = "A" THEN ARecord(name, ServerAddr)
    ELSE UnknownRecord(name, q_type)

SOARecord(name) ==
    [kind |-> "SOA", name |-> name, q_type |-> QTypeFromNum(6), class |-> 1,
     ttl |-> 60, len |-> 30, mname |-> HostName, rname |-> HostName,
     serial |-> 1, refresh |-> 2, retry |-> 3, expire |-> 4, minimum |-> 5]

CNAMERecord(name, host) ==
    [kind |-> "CNAME", name |-> name, q_type |-> QTypeFromNum(5), class |-> 1,
     ttl |-> 60, len |-> Len(host) + 2, host |-> host]

\* The delegation of the zone b: two name servers, n.b and m.b.
Delegation == <<NSRecord(ZoneName, HostName), NSRecord(ZoneName, HostName2)>>

\* The glue of the delegation, the address of m.b first.
Glue == <<ARecord(HostName2, RootHint), ARecord(HostName, ServerAddr)>>

ReplyKinds ==
    {"answer", "cname", "big", "foreign", "nxdomain", "glue", "unglued",
     "servfail", "error"}

\* The response a lookup returns: the header and question of the reply to
\* the query udp_lookup / tcp_lookup sends (id 6996, RD), and its sections.
\* "error" is a lookup that fails (its response is not used).
UpstreamReply(kind, qname, q_type) ==
    LET base == [NewPacket EXCEPT !.header.id = 6996,
                                  !.header.query_response = TRUE,
                                  !.header.recur_desired = TRUE,
                                  !.header.q_count = 1,
                                  !.questions = <<[name |-> qname, q_type |-> q_type]>>]
    IN  CASE kind = "answer" ->
                 [base EXCEPT !.header.auth_answer = TRUE,
                              !.header.an_count = 1, !.header.ns_count = 2,
                              !.header.ad_count = 2,
                              !.answers = <<AnswerRecord(qname, q_type)>>,
                              !.authority = Delegation,
                              !.addtional = Glue]
          [] kind = "cname" ->
                 [base EXCEPT !.header.an_count = 1, !.header.ns_count = 2,
                              !.header.ad_count = 2,
                              !.answers = <<CNAMERecord(qname, AliasName)>>,
                              !.authority = Delegation,
                              !.addtional = Glue]
          [] kind = "big" ->
                 [base EXCEPT !.header.an_count = BigAnswers,
                              !.answers = [i \in 1..BigAnswers |->
                                              AnswerRecord(qname, q_type)]]
          [] kind = "foreign" ->
                 [base EXCEPT !.header.an_count = 1,
                              !.questions = <<[name |-> AliasName, q_type |-> q_type]>>,
                              !.answers = <<AnswerRecord(AliasName, q_type)>>]
          [] kind = "nxdomain" ->
                 [base EXCEPT !.header.res_code = "NXDOMAIN",
                              !.header.ns_count = 1,
                              !.authority = <<SOARecord(ZoneName)>>]
          [] kind = "glue" ->
                 [base EXCEPT !.header.ns_count = 2, !.header.ad_count = 2,
                              !.authority = Delegation,
                              !.addtional = Glue]
          [] kind = "unglued" ->
                 [base EXCEPT !.header.ns_count = 2,
                              !.authority = Delegation]
          [] kind = "servfail" ->
                 [base EXCEPT !.header.res_code = "SERVFAIL"]
          [] OTHER -> base

Servers == {RootHint, ServerAddr}

\* The (server, name) pairs a lookup can be about.
WorldKeys == Servers \X {QueryName, HostName, HostName2}

\* world before any lookup: no server has been asked ("unset"); a server
\* asked about a name gives one kind of reply and keeps to it.
NoWorld == [x \in WorldKeys |-> "unset"]

\* The kinds of reply the lookup of `key` can get.
KindsOf(w, key) == IF w[key] = "unset" THEN ReplyKinds ELSE {w[key]}

\* The variables of the engine and the front-end when a specification does
\* not use them, and before the first request.
EngineIdle ==
    /\ world = NoWorld
    /\ fpc = "idle"
    /\ req = [proto |-> "UDP", buf |-> <<>>]
    /\ reqpkt = None
    /\ question = NoQuestion
    /\ stack = <<>>
    /\ eres = NoResult
    /\ res_packet = NewPacket
    /\ replies = <<>>
    /\ sent = 0
    /\ lastq = NoQuery

(***************************************************************************)
(* Upstream datagram lookups of concurrent handlers (udp_lookup).  The     *)
(* local port 9999 is held by one socket at a time; a socket receives      *)
(* whatever datagram arrives at the port while it is bound.                *)
(***************************************************************************)
Handlers == {1, 2}

\* the question of the request each handler has decoded
HandlerQuestion(h) ==
    [name |-> IF h = 1 THEN QueryName ELSE HostName, q_type |-> QTypeA]

NoDatagram == [from |-> <<0, 0, 0, 0>>, kind |-> "none", qname |-> <<>>,
               q_type |-> QTypeA, copy |-> 0]

\* a handler before its request has arrived
IdleHandler ==
    [pc |-> "idle", stack |-> <<>>, query |-> NoQuery, got |-> NoDatagram,
     bindfail |-> FALSE, result |-> NoResult, rcode |-> "none"]

\* the port free, nothing queued on it, nothing on the way
IdleNet == [sock |-> 0, queue |-> <<>>, flight |-> {}, asked |-> {}, dups |-> 0]

\* what a server answers: the root server refers to the name servers of b
\* with glue, the name server of b answers
ServerKind(server) == IF server = RootHint THEN "glue" ELSE "answer"

NetIdle ==
    /\ hand = [h \in Handlers |-> IdleHandler]
    /\ net = IdleNet

(***************************************************************************)
(* SpecQname: read_qname run one loop iteration at a time on every buffer  *)
(* content over a small alphabet, from every starting cursor.              *)
(***************************************************************************)
QnameBytes == {0, 1, 2, 66, 97, 192}

QnameBuffers == UNION {[1..n -> QnameBytes] : n \in 0..MaxBufLen}

\* a name of MaxLabels labels of LabelMax bytes, and two bytes after it
LongName ==
    Flatten([i \in 1..MaxLabels |-> <<LabelMax>> \o [j \in 1..LabelMax |-> 97]])
        \o <<0, 0, 0>>

QnameInit ==
    /\ CodecIdle
    /\ CacheIdle
    /\ EngineIdle
    /\ NetIdle
    /\ NameIdle
    /\ FrameIdle
    /\ \E k \in {"array", "vec"}, s \in QnameBuffers \cup {LongName},
          p \in 0..MaxBufLen :
          /\ p <= Len(s)
          /\ qbuf = [kind |-> k, buf |-> s, pos |-> p]
          /\ qstart = p
          /\ qn = QnameStart([kind |-> k, buf |-> s, pos |-> p])

QnameStep ==
    /\ qn.st = "run"
    /\ qn.hops < MaxHops
    /\ LET r == QnameIter(qbuf, qn) IN
          /\ qbuf' = r.b
          /\ qn' = r.l
    /\ UNCHANGED <<qstart, cvars, kvars, evars, nvars, bvars>>

QnameNext == QnameStep

SpecQname == QnameInit /\ [][QnameNext]_vars

(***************************************************************************)
(* C1: name decoding follows at most HopCap compression pointers before it *)
(* returns a name or an error: a pointer that points to itself, or a cycle *)
(* of pointers, does not keep the decoder in its loop.                     *)
(***************************************************************************)
C1_HopsBounded == qn.hops <= HopCap

(***************************************************************************)
(* C16: out-of-bounds access is an error value, never a crash: read_qname  *)
(* on a label whose length byte makes it run past the end of the buffer    *)
(* returns an error; it does not panic.                                    *)
(***************************************************************************)
C16_NoPanic == qn.st # "panic"

(***************************************************************************)
(* SpecCodec: a received message is decoded with DNSPacket::from_buffer,   *)
(* written with DNSPacket::write into a fresh buffer of the same flavour,  *)
(* and the bytes written are decoded again.  The received messages are a   *)
(* header, the question at offset 12 and at most MaxRecs records, of every *)
(* variant, with and without name compression; the messages without        *)
(* records run through the flag words of WireFlags, with and without the   *)
(* question.                                                               *)
(***************************************************************************)
U16Bytes(v) == <<(v \div 256) % 256, v % 256>>

\* the question a.B, type A, class IN: its name is at offset 12
WireQuestion == <<1, 97, 1, 66, 0>> \o <<0, 1, 0, 1>>

WireTtl == <<0, 0, 0, 60>>

\* A with rdlength 5 and five bytes of data
WireLongA == <<192, 12, 0, 1, 0, 1>> \o WireTtl \o <<0, 5, 10, 0, 0, 1, 7>>

WireRecords ==
    {   \* A, owner a pointer to offset 12
        <<192, 12, 0, 1, 0, 1>> \o WireTtl \o <<0, 4, 10, 0, 0, 1>>,
        \* NS, host ns + a pointer to offset 12
        <<192, 12, 0, 2, 0, 1>> \o WireTtl \o <<0, 5, 2, 110, 115, 192, 12>>,
        \* CNAME, owner c.a (written out), host a pointer to offset 12
        <<1, 99, 1, 97, 0, 0, 5, 0, 1>> \o WireTtl \o <<0, 2, 192, 12>>,
        \* MX, priority 10, host m (written out)
        <<192, 12, 0, 15, 0, 1>> \o WireTtl \o <<0, 5, 0, 10, 1, 109, 0>>,
        \* AAAA
        <<192, 12, 0, 28, 0, 1>> \o WireTtl
            \o <<0, 16, 32, 1, 0, 0, 0, 0, 0, 0, 0, 0, 0, 0, 0, 0, 0, 1>>,
        \* SOA, mname a pointer, rname r + a pointer
        <<192, 12, 0, 6, 0, 1>> \o WireTtl
            \o <<0, 24, 192, 12, 1, 114, 192, 12>>
            \o <<0, 0, 0, 1, 0, 0, 0, 2, 0, 0, 0, 3, 0, 0, 0, 4, 0, 0, 0, 5>>,
        \* TXT (a type the codec does not know), two bytes of data
        <<192, 12, 0, 16, 0, 1>> \o WireTtl \o <<0, 2, 1, 120>>,
        \* NS of the root zone: the owner is the root name
        <<0, 0, 2, 0, 1>> \o WireTtl \o <<0, 3, 1, 120, 0>>,
        WireLongA
    }

WireFlags == {256, 33152, 34179, 65535}

WireMessage(id, flags, nq, an, ns, ad, recs) ==
    U16Bytes(id) \o U16Bytes(flags) \o U16Bytes(nq) \o U16Bytes(an)
    \o U16Bytes(ns) \o U16Bytes(ad)
    \o (IF nq = 1 THEN WireQuestion ELSE <<>>) \o Flatten(recs)

CodecInit ==
    /\ QnameIdle
    /\ CacheIdle
    /\ EngineIdle
    /\ NetIdle
    /\ NameIdle
    /\ FrameIdle
    /\ cpc = "in"
    /\ \E k \in {"array", "vec"}, flags \in WireFlags, nq \in 0..1,
          n \in 0..MaxRecs, an \in 0..MaxRecs, ns \in 0..MaxRecs :
          /\ an + ns <= n
          /\ (n = 0 \/ (flags = 33152 /\ nq = 1))
          /\ \E recs \in [1..n -> WireRecords] :
                \* the record with the long rdlength is the last of its message
                /\ \A i \in 1..(n - 1) : recs[i] # WireLongA
                /\ cin = [kind |-> k, pos |-> 0,
                         buf |-> WireMessage(6996, flags, nq, an, ns,
                                             n - an - ns, recs)]
    /\ cpkt = NewPacket
    /\ cpre = <<0, 0, 0, 0>>
    /\ cenc = [st |-> "ok", b |-> NewBuffer("vec"), p |-> NewPacket]
    /\ cdec2 = [st |-> "ok", b |-> NewBuffer("vec"), v |-> NewPacket]

\* let request_packet = DNSPacket::from_buffer(&mut req_buffer)?
CodecDecode ==
    /\ cpc = "in"
    /\ LET r == FromBuffer(cin) IN
          /\ cpc' = IF r.st = "ok" THEN "dec" ELSE "rejected"
          /\ cpkt' = r.v
    /\ UNCHANGED <<cin, cpre, cenc, cdec2, qvars, kvars, evars, nvars, bvars>>

\* The counts a caller may have left in the header before it calls write:
\* those decoded, or any others (the fields are public and the front-end
\* pushes into the sections without touching them).
PreCounts(p) ==
    {<<p.header.q_count, p.header.an_count, p.header.ns_count, p.header.ad_count>>,
     <<3, 2, 0, 65535>>}

\* packet.write(&mut buffer) on a new buffer of the flavour of the transport
CodecEncode ==
    /\ cpc = "dec"
    /\ \E c \in PreCounts(cpkt) :
          /\ cpre' = c
          /\ cenc' = PacketWrite(NewBuffer(cin.kind),
                        [cpkt EXCEPT !.header.q_count = c[1],
                                     !.header.an_count = c[2],
                                     !.header.ns_count = c[3],
                                     !.header.ad_count = c[4]])
    /\ cpc' = "enc"
    /\ UNCHANGED <<cin, cpkt, cdec2, qvars, kvars, evars, nvars, bvars>>

\* The peer decodes what was written: the bytes 0..pos of the buffer, as
\* they arrive in its own buffer of the same flavour.
CodecRedecode ==
    /\ cpc = "enc"
    /\ cenc.st = "ok"
    /\ cdec2' = FromBuffer([cenc.b EXCEPT !.pos = 0])
    /\ cpc' = "done"
    /\ UNCHANGED <<cin, cpkt, cpre, cenc, qvars, kvars, evars, nvars, bvars>>

CodecNext == CodecDecode \/ CodecEncode \/ CodecRedecode

SpecCodec == CodecInit /\ [][CodecNext]_vars

(***************************************************************************)
(* C4: round trip.  A message that from_buffer decoded, written with       *)
(* write and decoded again, gives a message equal to the one decoded       *)
(* first: the write succeeds, the second decode succeeds, and the header   *)
(* fields, the questions and the records of the three sections are equal.  *)
(***************************************************************************)
C4_RoundTrip ==
    /\ (cpc = "enc" => cenc.st = "ok")
    /\ (cpc = "done" => cdec2.st = "ok" /\ cdec2.v = cpkt)

(***************************************************************************)
(* C5: count consistency.  After DNSPacket::write, whatever the counts in  *)
(* the header were before the call, the four counts of the header, and the *)
(* four counts in bytes 4..11 of the bytes written, are the lengths of the *)
(* four sections.                                                          *)
(***************************************************************************)
U16At(b, i) == ByteAt(b, i) * 256 + ByteAt(b, i + 1)

C5_CountsMatchSections ==
    cpc \in {"enc", "done"} =>
        /\ cenc.p.header.q_count = Len(cenc.p.questions)
        /\ cenc.p.header.an_count = Len(cenc.p.answers)
        /\ cenc.p.header.ns_count = Len(cenc.p.authority)
        /\ cenc.p.header.ad_count = Len(cenc.p.addtional)
        /\ U16At(cenc.b, 4) = Len(cpkt.questions)
        /\ U16At(cenc.b, 6) = Len(cpkt.answers)
        /\ U16At(cenc.b, 8) = Len(cpkt.authority)
        /\ U16At(cenc.b, 10) = Len(cpkt.addtional)

\* a write has run on a packet with records whose header counts were not
\* the lengths of its sections
C5_Witness ==
    /\ cpc = "enc"
    /\ cenc.st = "ok"
    /\ Len(cpkt.answers) = 1 /\ Len(cpkt.addtional) = 1
    /\ cpre = <<3, 2, 0, 65535>>

(***************************************************************************)
(* SpecCache: set_records and get_records called in any order on two keys  *)
(* while the clock advances.  The messages stored carry records with TTL   *)
(* 0, 1 and 2 in their three sections.                                     *)
(***************************************************************************)
CacheRec(kind, ttl, x) ==
    IF kind = "A"
    THEN [kind |-> "A", name |-> <<97>>, q_type |-> QTypeA, class |-> 1,
          ttl |-> ttl, len |-> 4, addr |-> <<10, 0, 0, x>>]
    ELSE [kind |-> "NS", name |-> <<97>>, q_type |-> QTypeFromNum(2), class |-> 1,
          ttl |-> ttl, len |-> 3, host |-> <<x>>]

CacheMessages ==
    { [NewPacket EXCEPT !.answers = <<CacheRec("A", 2, 1)>>,
                        !.authority = <<CacheRec("NS", 1, 110)>>,
                        !.addtional = <<CacheRec("A", 0, 2)>>],
      [NewPacket EXCEPT !.answers = <<CacheRec("A", 1, 3), CacheRec("A", 2, 4)>>],
      [NewPacket EXCEPT !.answers = <<CacheRec("A", 0, 5)>>] }

CacheInit ==
    /\ QnameIdle
    /\ CodecIdle
    /\ CacheIdle
    /\ EngineIdle
    /\ NetIdle
    /\ NameIdle
    /\ FrameIdle

\* cache.set_records(qname, q_type, packet)
CacheSet ==
    /\ \E k \in CacheKeys, m \in CacheMessages :
          /\ map' = SetRecords(map, k, m, now)
          /\ kop' = [op |-> "set", key |-> k]
          /\ kputs' = [kputs EXCEPT ![k] =
                          IF kputs[k] = <<>> THEN <<[m |-> m, t |-> now]>>
                          ELSE <<kputs[k][Len(kputs[k])], [m |-> m, t |-> now]>>]
    /\ UNCHANGED <<now, kgot, qvars, cvars, evars, nvars, bvars>>

\* cache.get_records(qname, q_type)
CacheGet ==
    /\ \E k \in CacheKeys :
          /\ kgot' = GetRecords(map, k, now)
          /\ kop' = [op |-> "get", key |-> k]
    /\ UNCHANGED <<map, now, kputs, qvars, cvars, evars, nvars, bvars>>

\* a second passes
CacheTick ==
    /\ now < MaxTime
    /\ now' = now + 1
    /\ kop' = [kop EXCEPT !.op = "tick"]
    /\ UNCHANGED <<map, kgot, kputs, qvars, cvars, evars, nvars, bvars>>

CacheNext == CacheSet \/ CacheGet \/ CacheTick

SpecCache == CacheInit /\ [][CacheNext]_vars

\* the records of the three sections of a message, in the order stored
AllRecords(m) == m.answers \o m.authority \o m.addtional

SeqToSet(s) == {s[i] : i \in 1..Len(s)}

LastPut(k) == kputs[k][Len(kputs[k])]

(***************************************************************************)
(* C6: cache TTL.  A get_records on a key at time t, after a set_records   *)
(* of message m on that key at time cached_at and no later one, returns    *)
(* exactly the records r of m.answers, m.authority and m.addtional with    *)
(* t - cached_at < r.ttl, as the answers of a message with nothing else in *)
(* it, and a miss when there is no such record.                            *)
(***************************************************************************)
C6_CacheTtl ==
    (kop.op = "get" /\ kputs[kop.key] # <<>>) =>
        LET m    == LastPut(kop.key).m
            at   == LastPut(kop.key).t
            live == SelectSeq(AllRecords(m), LAMBDA r : now - at < r.ttl)
        IN  IF live = <<>> THEN ~kgot.hit
            ELSE /\ kgot.hit
                 /\ kgot.packet.answers = live
                 /\ kgot.packet.questions = <<>>
                 /\ kgot.packet.authority = <<>>
                 /\ kgot.packet.addtional = <<>>

\* a get that returned some of the records stored and left out the others,
\* whose TTL had run out
C6_Witness ==
    /\ kop.op = "get"
    /\ kgot.hit
    /\ kputs[kop.key] # <<>>
    /\ now > LastPut(kop.key).t
    /\ Len(kgot.packet.answers) < Len(AllRecords(LastPut(kop.key).m))

(***************************************************************************)
(* C7: entries are overwritten, not merged.  A set_records leaves under    *)
(* its key the records of its message and the time of the call and leaves  *)
(* the entries of the other keys as they were; a get_records after two     *)
(* set_records on its key returns records of the second message only, each *)
(* live against the time of the second call.                               *)
(***************************************************************************)
C7_SetStep ==
    kop'.op = "set" =>
        /\ map'[kop'.key].records = AllRecords(kputs'[kop'.key][Len(kputs'[kop'.key])].m)
        /\ map'[kop'.key].timestamp = now
        /\ \A k \in CacheKeys \ {kop'.key} : map'[k] = map[k]

C7_GetStep ==
    (kop'.op = "get" /\ Len(kputs[kop'.key]) = 2 /\ kgot'.hit) =>
        \A r \in SeqToSet(kgot'.packet.answers) :
            /\ r \in SeqToSet(AllRecords(kputs[kop'.key][2].m))
            /\ now - kputs[kop'.key][2].t < r.ttl

C7_Overwritten == [][C7_SetStep /\ C7_GetStep]_vars

\* a get after two set_records of different messages on its key, at a time
\* when a record of the first message would still be live
C7_Witness ==
    /\ kop.op = "get"
    /\ Len(kputs[kop.key]) = 2
    /\ kputs[kop.key][1].m # kputs[kop.key][2].m
    /\ \E r \in SeqToSet(AllRecords(kputs[kop.key][1].m)) :
          /\ now - kputs[kop.key][1].t < r.ttl
          /\ r \notin SeqToSet(AllRecords(kputs[kop.key][2].m))
          /\ r \notin SeqToSet(kgot.packet.answers)

(***************************************************************************)
(* Spec: the front-end and the engine.  Requests arrive one after the      *)
(* other over either transport: for the A records of a.B with RD set, for  *)
(* its TXT records with RD clear, without a question, and cut short.       *)
(* While a request is resolved each upstream server gives, for each name,  *)
(* one kind of reply.                                                      *)
(***************************************************************************)
RequestWire(id, flags, qtype) ==
    U16Bytes(id) \o U16Bytes(flags) \o <<0, 1, 0, 0, 0, 0, 0, 0>>
    \o <<1, 97, 1, 66, 0>> \o U16Bytes(qtype) \o <<0, 1>>

RequestWires ==
    { RequestWire(7, 256, 1),
      RequestWire(9, 0, 16),
      \* no question
      WireMessage(11, 256, 0, 0, 0, 0, <<>>),
      \* no question, and an A record of a in the answer section
      WireMessage(13, 0, 0, 1, 0, 0,
                  << <<1, 97, 0, 0, 1, 0, 1>> \o WireTtl \o <<0, 4, 10, 0, 0, 1>> >>),
      \* two bytes: less than a header
      <<0, 15>>,
      \* a question cut before its class
      SubSeq(RequestWire(17, 256, 1), 1, Len(RequestWire(17, 256, 1)) - 2) }

Init ==
    /\ QnameIdle
    /\ CodecIdle
    /\ CacheIdle
    /\ EngineIdle
    /\ NetIdle
    /\ NameIdle
    /\ FrameIdle

\* VecBuffer::to_socket: the length of the buffer as a u16, then the buffer
ToSocket(buf) == U16Bytes(Len(buf) % 65536) \o buf

\* run_server: a request is received and its handler spawned
Receive ==
    /\ fpc \in {"idle", "done", "failed"}
    /\ \E proto \in {"UDP", "TCP"}, wire \in RequestWires :
          req' = [proto |-> proto, buf |-> wire]
    /\ fpc' = "spawned"
    /\ world' = NoWorld
    /\ reqpkt' = None
    /\ question' = NoQuestion
    /\ stack' = <<>>
    /\ eres' = NoResult
    /\ res_packet' = NewPacket
    /\ replies' = <<>>
    /\ sent' = 0
    /\ lastq' = NoQuery
    /\ UNCHANGED <<qvars, cvars, kvars, nvars, bvars>>

\* handle_request / handle_connection, from the decoding of the request to
\* the first call of recursive_lookup (or, without a question, to FORMERR)
HandleStart ==
    /\ fpc = "spawned"
    /\ LET d == FromBuffer([kind |-> BufferKind(req.proto), buf |-> req.buf,
                            pos |-> 0])
       IN  IF d.st # "ok"
           THEN /\ fpc' = "failed"
                /\ UNCHANGED <<world, reqpkt, question, stack, res_packet>>
           ELSE /\ reqpkt' = Some(d.v)
                /\ IF d.v.questions = <<>>
                   THEN /\ res_packet' = ReplyNoQuestion(ReplyHeader(d.v))
                        /\ fpc' = "respond"
                        /\ UNCHANGED <<world, question, stack>>
                   ELSE /\ res_packet' = ReplyHeader(d.v)
                        /\ question' = d.v.questions[Len(d.v.questions)]
                        /\ stack' = <<NewFrame(d.v.questions[Len(d.v.questions)].name,
                                               d.v.questions[Len(d.v.questions)].q_type)>>
                        /\ fpc' = "lookup"
                        /\ UNCHANGED world
    /\ UNCHANGED <<req, eres, replies, sent, lastq, qvars, cvars, kvars, nvars, bvars>>

\* recursive_lookup: the innermost call sends its query to (ns, 53), gets
\* the reply and runs its loop to the next query, or returns; when the
\* outermost call returns, the handler fills res_packet.
EngineLookup ==
    /\ fpc = "lookup"
    /\ stack # <<>>
    /\ stack[Len(stack)].iters < MaxIter
    /\ \E kind \in KindsOf(world, <<stack[Len(stack)].ns, stack[Len(stack)].qname>>) :
       LET n     == Len(stack)
           top   == stack[n]
           reply == [st |-> IF kind = "error" THEN "err" ELSE "ok",
                     packet |-> UpstreamReply(kind, top.qname, top.q_type)]
           out   == LoopBody([stack EXCEPT ![n].iters = top.iters + 1], reply)
       IN  /\ Len(out.stack) <= MaxDepth
           /\ world' = [world EXCEPT ![<<top.ns, top.qname>>] = kind]
           /\ stack' = out.stack
           /\ eres' = out.res
           /\ sent' = sent + 1
           /\ lastq' = [server |-> top.ns, port |-> 53, qname |-> top.qname,
                        q_type |-> top.q_type]
           /\ IF out.res.st = "none"
              THEN UNCHANGED <<fpc, res_packet>>
              ELSE /\ fpc' = "respond"
                   /\ res_packet' = ReplyResult(res_packet, question, out.res)
    /\ UNCHANGED <<req, reqpkt, question, replies, qvars, cvars, kvars, nvars, bvars>>

\* res_packet is written into a new buffer and the bytes are sent back
Respond ==
    /\ fpc = "respond"
    /\ LET w == PacketWrite(NewBuffer(BufferKind(req.proto)), res_packet)
       IN  IF w.st # "ok"
           THEN /\ fpc' = "failed"
                /\ UNCHANGED replies
           ELSE /\ fpc' = "done"
                /\ replies' = Append(replies,
                      [proto |-> req.proto, packet |-> w.p,
                       bytes |-> SubSeq(w.b.buf, 1, w.b.pos),
                       wire |-> IF req.proto = "UDP"
                                THEN SubSeq(w.b.buf, 1, w.b.pos)
                                ELSE ToSocket(w.b.buf)])
    /\ UNCHANGED <<world, req, reqpkt, question, stack, eres, res_packet, sent, lastq,
                   qvars, cvars, kvars, nvars, bvars>>

Next == Receive \/ HandleStart \/ EngineLookup \/ Respond

Spec == Init /\ [][Next]_vars

(***************************************************************************)
(* C2: one call of recursive_lookup sends at most IterCap upstream         *)
(* queries, whatever the servers reply: a server that keeps delegating to  *)
(* a name server already used does not keep the loop going.                *)
(***************************************************************************)
C2_IterationsBounded == \A i \in 1..Len(stack) : stack[i].iters <= IterCap

(***************************************************************************)
(* C3: the calls of recursive_lookup nest at most DepthCap deep, whatever  *)
(* the servers reply.                                                      *)
(***************************************************************************)
C3_DepthBounded == Len(stack) <= DepthCap

(***************************************************************************)
(* C8: once the engine has returned a NOERROR response with answers for    *)
(* (name, type), the cache holds an entry for (name, type).                *)
(***************************************************************************)
C8_AnswerCached ==
    (eres.st = "ok" /\ eres.packet.header.res_code = "NOERROR"
                    /\ eres.packet.answers # <<>>)
        => map[<<question.name, question.q_type>>] # NoEntry

(***************************************************************************)
(* C9: reply construction.  For a request with a question on which the     *)
(* engine succeeded, over either transport, the reply has the id and the   *)
(* RD of the request, QR and RA set, the rcode of the engine's response    *)
(* and its answer, authority and additional sections, in the same order:   *)
(* in res_packet, and in the reply as the client decodes the bytes sent.   *)
(***************************************************************************)
ReplyMatches(p) ==
    /\ p.header.id = reqpkt.v.header.id
    /\ p.header.recur_desired = reqpkt.v.header.recur_desired
    /\ p.header.query_response
    /\ p.header.recur_available
    /\ p.header.res_code = eres.packet.header.res_code
    /\ p.answers = eres.packet.answers
    /\ p.authority = eres.packet.authority
    /\ p.addtional = eres.packet.addtional

\* the reply as its receiver decodes it
ReplyDecoded == FromBuffer([kind |-> "vec", buf |-> replies[1].bytes, pos |-> 0])

C9_ReplyConstruction ==
    (eres.st = "ok" /\ fpc \in {"respond", "done"}) =>
        /\ ReplyMatches(res_packet)
        /\ fpc = "done" =>
              /\ Len(replies) = 1
              /\ ReplyDecoded.st = "ok"
              /\ ReplyMatches(ReplyDecoded.v)

(***************************************************************************)
(* C10: a request that decodes to a message without a question gets one    *)
(* reply, with the id of the request, QR set and RCODE FORMERR, in         *)
(* res_packet and in the bytes sent, and no upstream query is sent for it. *)
(***************************************************************************)
C10_NoQuestionFormerr ==
    (reqpkt.some /\ reqpkt.v.questions = <<>>) =>
        /\ fpc \in {"respond", "done"}
        /\ sent = 0
        /\ stack = <<>>
        /\ res_packet.header.res_code = "FORMERR"
        /\ Len(replies) = (IF fpc = "done" THEN 1 ELSE 0)
        /\ fpc = "done" =>
              /\ replies[1].packet.header.id = reqpkt.v.header.id
              /\ replies[1].packet.header.query_response
              /\ replies[1].packet.header.res_code = "FORMERR"
              /\ replies[1].bytes[1] * 256 + replies[1].bytes[2]
                    = reqpkt.v.header.id
              /\ replies[1].bytes[3] >= 128
              /\ replies[1].bytes[4] % 16 = 1

\* the reply to a request without a question has been sent
C10_Witness ==
    /\ fpc = "done"
    /\ reqpkt.some
    /\ reqpkt.v.questions = <<>>
    /\ reqpkt.v.header.id = 11
    /\ Len(replies) = 1
    /\ sent = 0

(***************************************************************************)
(* C11: whenever the engine has returned an error for a request, the       *)
(* front-end replies: res_packet, and the one reply sent, carry RCODE      *)
(* SERVFAIL and the transaction id of the request.                         *)
(***************************************************************************)
C11_EngineErrorServfail ==
    eres.st = "err" =>
        /\ fpc \in {"respond", "done"}
        /\ res_packet.header.res_code = "SERVFAIL"
        /\ res_packet.header.id = reqpkt.v.header.id
        /\ fpc = "done" =>
              /\ Len(replies) = 1
              /\ replies[1].packet.header.res_code = "SERVFAIL"
              /\ replies[1].bytes[1] * 256 + replies[1].bytes[2]
                    = reqpkt.v.header.id
              /\ replies[1].bytes[4] % 16 = 2

\* the SERVFAIL reply has been sent after the second upstream lookup failed
C11_Witness ==
    /\ fpc = "done"
    /\ eres.st = "err"
    /\ sent >= 2
    /\ Len(replies) = 1
    /\ replies[1].packet.header.res_code = "SERVFAIL"

(***************************************************************************)
(* C12: a handler that has decoded its request and whose reply does not    *)
(* fit the buffer still ends with a reply sent to the client, with RCODE   *)
(* SERVFAIL.                                                               *)
(***************************************************************************)
C12_OversizeServfail ==
    (fpc = "failed" /\ reqpkt.some) =>
        /\ Len(replies) = 1
        /\ replies[1].packet.header.res_code = "SERVFAIL"

(***************************************************************************)
(* C17: what the engine returns is a message whose question is the (name,  *)
(* type) it was asked and whose rcode is a defined response code, or an    *)
(* error.                                                                  *)
(***************************************************************************)
DefinedRCodes == {"NOERROR", "FORMERR", "SERVFAIL", "NXDOMAIN", "NOTIMP", "REFUSED"}

C17_EngineResult ==
    eres.st = "ok" =>
        /\ eres.packet.questions
              = <<[name |-> question.name, q_type |-> question.q_type]>>
        /\ eres.packet.header.res_code \in DefinedRCodes

(***************************************************************************)
(* Steps of the engine, for the claims about one pass of its loop: the     *)
(* call on top of the stack, and the response its query gets in the step.  *)
(***************************************************************************)
IsLookupStep == fpc = "lookup" /\ sent' = sent + 1

TopCall == stack[Len(stack)]

StepKind == world'[<<TopCall.ns, TopCall.qname>>]

StepResponse == UpstreamReply(StepKind, TopCall.qname, TopCall.q_type)

StepConclusive ==
    /\ StepKind # "error"
    /\ \/ StepResponse.header.res_code = "NOERROR" /\ Len(StepResponse.answers) > 0
       \/ StepResponse.header.res_code = "NXDOMAIN"

(***************************************************************************)
(* C18: a call of the engine stops at the first conclusive response        *)
(* (NOERROR with answers, or NXDOMAIN): it returns in that step, the       *)
(* outermost call with that very response (a CNAME answer included, as it  *)
(* is), and once the engine has returned no upstream query is sent for     *)
(* the request.                                                            *)
(***************************************************************************)
C18_StopStep ==
    /\ (IsLookupStep /\ StepConclusive) =>
          IF Len(stack) = 1
          THEN /\ eres' = [st |-> "ok", packet |-> StepResponse]
               /\ stack' = <<>>
               /\ fpc' = "respond"
          ELSE Len(stack') < Len(stack)
    /\ fpc \in {"respond", "done"} => (sent' = sent \/ fpc' = "spawned")

C18_StopsAtConclusive == [][C18_StopStep]_vars

\* the reply to a request whose first upstream response was a CNAME answer
C18_Witness ==
    /\ fpc = "done"
    /\ eres.st = "ok"
    /\ sent = 1
    /\ eres.packet.answers # <<>>
    /\ eres.packet.answers[1].kind = "CNAME"

(***************************************************************************)
(* C19: glue referral.  For a response that is not conclusive, take the    *)
(* NS records of the authority section whose owner is a suffix of the      *)
(* query name, in order, and the first of them whose host has an A record  *)
(* in the additional section: get_resolved_ns returns the address of the   *)
(* first such A record, the call goes on with it for the same (name,       *)
(* type), and every upstream query goes to the call's ns on port 53.       *)
(***************************************************************************)
GlueOf(p, i) ==
    {j \in 1..Len(p.addtional) :
        p.addtional[j].kind = "A" /\ p.addtional[j].name = p.authority[i].host}

ExpectedGlue(p, qname) ==
    LET idx == {i \in 1..Len(p.authority) :
                   /\ p.authority[i].kind = "NS"
                   /\ EndsWith(qname, p.authority[i].name)
                   /\ GlueOf(p, i) # {}}
    IN  IF idx = {} THEN None
        ELSE LET i0 == CHOOSE i \in idx : \A k \in idx : i <= k
                 j0 == CHOOSE j \in GlueOf(p, i0) : \A k \in GlueOf(p, i0) : j <= k
             IN  Some(p.addtional[j0].addr)

C19_GlueStep ==
    IsLookupStep =>
        /\ lastq' = [server |-> TopCall.ns, port |-> 53,
                     qname |-> TopCall.qname, q_type |-> TopCall.q_type]
        /\ (StepKind # "error" /\ ~StepConclusive
                /\ ExpectedGlue(StepResponse, TopCall.qname).some) =>
              /\ GetResolvedNs(StepResponse, TopCall.qname)
                    = ExpectedGlue(StepResponse, TopCall.qname)
              /\ fpc' = "lookup"
              /\ stack' = [stack EXCEPT
                    ![Len(stack)].ns = ExpectedGlue(StepResponse, TopCall.qname).v,
                    ![Len(stack)].iters = @ + 1]

C19_GlueReferral == [][C19_GlueStep]_vars

\* the root server has referred the query with glue and the second query
\* has gone to the address of the glue
C19_Witness ==
    /\ world[<<RootHint, QueryName>>] = "glue"
    /\ sent = 2
    /\ lastq = [server |-> ServerAddr, port |-> 53, qname |-> QueryName,
                q_type |-> question.q_type]

(***************************************************************************)
(* C20: unglued referral.  When the engine returns a referral without      *)
(* glue as it is, every NS target host of the delegation has been tried:   *)
(* the root server has been asked for the address of each of them.         *)
(***************************************************************************)
C20_TriesEachTarget ==
    (/\ eres.st = "ok"
     /\ eres.packet.header.res_code = "NOERROR"
     /\ eres.packet.answers = <<>>
     /\ GetNs(eres.packet, question.name) # <<>>
     /\ ~ExpectedGlue(eres.packet, question.name).some) =>
        \A i \in 1..Len(GetNs(eres.packet, question.name)) :
            world[<<RootHint, GetNs(eres.packet, question.name)[i].host>>] # "unset"

(***************************************************************************)
(* SpecNet: two datagram requests handled concurrently, each resolved by   *)
(* the engine with udp_lookup.  The upstream servers answer the queries    *)
(* they receive, at any time or never; the network delivers a datagram to  *)
(* port 9999 at any time, and may deliver it twice.                        *)
(***************************************************************************)
NetInit ==
    /\ QnameIdle
    /\ CodecIdle
    /\ CacheIdle
    /\ EngineIdle
    /\ NetIdle
    /\ NameIdle
    /\ FrameIdle

\* run_server spawns handle_request, which decodes the request and calls
\* recursive_lookup for its question
NetSpawn(h) ==
    /\ hand[h].pc = "idle"
    /\ hand' = [hand EXCEPT ![h] = [@ EXCEPT
                  !.pc = "bind",
                  !.stack = <<NewFrame(HandlerQuestion(h).name,
                                       HandlerQuestion(h).q_type)>>]]
    /\ UNCHANGED <<net, qvars, cvars, kvars, evars, bvars>>

\* the engine has returned `out` to the handler of h, or goes on
AfterLookup(h, out, got) ==
    [hand[h] EXCEPT !.stack = out.stack,
                    !.got = got,
                    !.result = out.res,
                    !.pc = IF out.res.st = "none" THEN "bind" ELSE "respond"]

\* udp_lookup: UdpSocket::bind(("0.0.0.0", 9999)).await?
UdpBind(h) ==
    /\ hand[h].pc = "bind"
    /\ IF net.sock = 0
       THEN /\ net' = [net EXCEPT !.sock = h, !.queue = <<>>]
            /\ hand' = [hand EXCEPT ![h].pc = "send"]
       ELSE /\ hand' = [hand EXCEPT ![h] =
                  [AfterLookup(h, LoopBody(hand[h].stack,
                                           [st |-> "err", packet |-> NewPacket]),
                               NoDatagram)
                      EXCEPT !.bindfail = TRUE]]
            /\ UNCHANGED net
    /\ UNCHANGED <<qvars, cvars, kvars, evars, bvars>>

\* udp_lookup: the query (id 6996, RD, one question) is written and sent to
\* (ns, 53)
UdpSend(h) ==
    /\ hand[h].pc = "send"
    /\ LET top == hand[h].stack[Len(hand[h].stack)]
           q   == [server |-> top.ns, port |-> 53, qname |-> top.qname,
                   q_type |-> top.q_type]
       IN  /\ hand' = [hand EXCEPT ![h].pc = "recv", ![h].query = q,
                                   ![h].got = NoDatagram,
                                   ![h].stack[Len(hand[h].stack)].iters = @ + 1]
           /\ net' = [net EXCEPT !.asked = @ \cup {q}]
    /\ UNCHANGED <<qvars, cvars, kvars, evars, bvars>>

\* udp_lookup: recv_from returns the first datagram queued on the socket,
\* the datagram is decoded and returned, the socket is dropped; the engine
\* runs its loop on the response, to its next lookup or to its return
UdpRecv(h) ==
    /\ hand[h].pc = "recv"
    /\ net.sock = h
    /\ net.queue # <<>>
    /\ hand[h].stack[Len(hand[h].stack)].iters < MaxIter
    /\ LET d    == Head(net.queue)
           resp == UpstreamReply(d.kind, d.qname, d.q_type)
       IN  hand' = [hand EXCEPT ![h] =
                AfterLookup(h, LoopBody(hand[h].stack,
                                        [st |-> "ok", packet |-> resp]), d)]
    /\ net' = [net EXCEPT !.sock = 0, !.queue = <<>>]
    /\ UNCHANGED <<qvars, cvars, kvars, evars, bvars>>

\* handle_request: res_packet is filled from the engine's result and sent
NetRespond(h) ==
    /\ hand[h].pc = "respond"
    /\ hand' = [hand EXCEPT ![h].pc = "done",
                  ![h].rcode = ReplyResult(ReplyHeader(NewPacket),
                                           HandlerQuestion(h),
                                           hand[h].result).header.res_code]
    /\ UNCHANGED <<net, qvars, cvars, kvars, evars, bvars>>

\* an upstream server answers a query it has received
ServerReply ==
    /\ \E q \in net.asked :
          net' = [net EXCEPT
                    !.asked = @ \ {q},
                    !.flight = @ \cup {[from |-> q.server,
                                        kind |-> ServerKind(q.server),
                                        qname |-> q.qname, q_type |-> q.q_type,
                                        copy |-> 0]}]
    /\ UNCHANGED <<hand, qvars, cvars, kvars, evars, bvars>>

\* the network duplicates a datagram
NetDuplicate ==
    /\ net.dups < MaxDup
    /\ \E d \in net.flight :
          /\ d.copy = 0
          /\ net' = [net EXCEPT !.dups = @ + 1,
                                !.flight = @ \cup {[d EXCEPT !.copy = net.dups + 1]}]
    /\ UNCHANGED <<hand, qvars, cvars, kvars, evars, bvars>>

\* a datagram arrives at port 9999: it is queued on the socket bound to
\* the port, or dropped when there is none
NetDeliver ==
    /\ \E d \in net.flight :
          net' = [net EXCEPT !.flight = @ \ {d},
                             !.queue = IF net.sock = 0 THEN @ ELSE Append(@, d)]
    /\ UNCHANGED <<hand, qvars, cvars, kvars, evars, bvars>>

HandlerStep(h) ==
    NetSpawn(h) \/ UdpBind(h) \/ UdpSend(h) \/ UdpRecv(h) \/ NetRespond(h)

NetNext ==
    \/ \E h \in Handlers : HandlerStep(h)
    \/ ServerReply
    \/ NetDuplicate
    \/ NetDeliver

SpecNet == NetInit /\ [][NetNext]_vars

\* The handlers take their steps and the network delivers what is on the
\* way; a server need not answer.
SpecNetFair ==
    /\ SpecNet
    /\ \A h \in Handlers : WF_vars(HandlerStep(h))
    /\ WF_vars(NetDeliver)

(***************************************************************************)
(* C13: no cross-talk.  The datagram a lookup returns is the reply to the  *)
(* query that lookup sent: same question, from the server it was sent to.  *)
(***************************************************************************)
C13_NoCrossTalk ==
    \A h \in Handlers :
        hand[h].got # NoDatagram =>
            /\ hand[h].got.from = hand[h].query.server
            /\ hand[h].got.qname = hand[h].query.qname
            /\ hand[h].got.q_type = hand[h].query.q_type

(***************************************************************************)
(* C14: no upstream datagram lookup fails because another handler's lookup *)
(* holds the local socket.                                                 *)
(***************************************************************************)
C14_NoBindConflict == \A h \in Handlers : ~hand[h].bindfail

(***************************************************************************)
(* C15: every upstream I/O is bounded by a timeout: a handler that waits   *)
(* for an upstream reply eventually gets the lookup's result, a response   *)
(* or an error, and replies to its client, even if the server never        *)
(* answers.                                                                *)
(***************************************************************************)
C15_LookupReturns ==
    \A h \in Handlers : (hand[h].pc = "recv") ~> (hand[h].pc = "done")

(***************************************************************************)
(* C21: the 4-bit response code survives the header codec: the RCODE       *)
(* written by DNSPacket::write is the RCODE of the header that was         *)
(* decoded, for every value of the field.                                  *)
(***************************************************************************)
C21_RcodeSurvives ==
    (cpc \in {"enc", "done"} /\ cenc.st = "ok") =>
        ByteAt(cenc.b, 3) % 16 = ByteAt(cin, 3) % 16

(***************************************************************************)
(* C22: a message that DNSPacket::from_buffer has decoded holds no record  *)
(* of type A whose rdlength is not 4 and no record of type AAAA whose      *)
(* rdlength is not 16: DNSRecord::read fails on such a record.             *)
(***************************************************************************)
C22_AddressLength ==
    cpc \in {"dec", "enc", "done"} =>
        \A rec \in SeqToSet(AllRecords(cpkt)) :
            /\ rec.kind = "A" => rec.len = 4
            /\ rec.kind = "AAAA" => rec.len = 16

(***************************************************************************)
(* C24: in the bytes DNSRecord::write writes for a record, the rdlength    *)
(* field is the number of RDATA bytes that follow it; checked on every     *)
(* record of a decoded message, written into a new buffer.                 *)
(***************************************************************************)
RecordBytes(rec) == RecordWrite(Writer(NewBuffer("vec")), rec).b

OwnerBytes(rec) == WriteQname(Writer(NewBuffer("vec")), rec.name).b

C24_RdlengthMatches ==
    cpc \in {"dec", "enc", "done"} =>
        \A rec \in SeqToSet(AllRecords(cpkt)) :
            rec.kind # "UNKNOWN" =>
                U16At(RecordBytes(rec), Len(OwnerBytes(rec).buf) + 8)
                    = Len(RecordBytes(rec).buf) - Len(OwnerBytes(rec).buf) - 10

(***************************************************************************)
(* C25: in the bytes DNSPacket::write produces, the count of each record   *)
(* section in the header is the number of records of the section that      *)
(* were written.                                                           *)
(***************************************************************************)
WrittenEntries(s) ==
    Cardinality({i \in 1..Len(s) : RecordBytes(s[i]).buf # <<>>})

C25_CountsMatchEntries ==
    (cpc \in {"enc", "done"} /\ cenc.st = "ok") =>
        /\ U16At(cenc.b, 6) = WrittenEntries(cpkt.answers)
        /\ U16At(cenc.b, 8) = WrittenEntries(cpkt.authority)
        /\ U16At(cenc.b, 10) = WrittenEntries(cpkt.addtional)

(***************************************************************************)
(* C23: read_qname never returns a name of more than NameLimit bytes: it   *)
(* fails when the labels it has read add up to more.                       *)
(***************************************************************************)
C23_NameLimit == qn.st = "ok" => Len(qn.out) <= NameLimit

(***************************************************************************)
(* C26: the cursor after a successful read_qname that started at p.  When  *)
(* the name has no pointer the cursor is p plus the encoded length of the  *)
(* name, its final zero byte included; when it has pointers the cursor is  *)
(* two bytes after the position of the first pointer.                      *)
(***************************************************************************)
\* the end of the name written at p: after its zero byte or its first pointer
RECURSIVE NameEnd(_, _)
NameEnd(b, p) ==
    IF p >= BufLen(b) THEN p
    ELSE IF ByteAt(b, p) = 0 THEN p + 1
    ELSE IF ByteAt(b, p) >= 192 THEN p + 2
    ELSE NameEnd(b, p + 1 + ByteAt(b, p))

C26_CursorAfterName ==
    qn.st = "ok" => qbuf.pos = NameEnd(qbuf, qstart)

\* a name made of one label and a pointer has been read from the start of
\* the buffer, and one without a pointer is covered by the same formula
C26_Witness ==
    /\ qn.st = "ok"
    /\ qn.jump
    /\ qn.out # <<>>
    /\ qstart = 0
    /\ qbuf.pos = 4

(***************************************************************************)
(* SpecName: write_qname followed by read_qname.  A name of up to          *)
(* MaxNameLabels labels (none: the root name, "") is written into a buffer *)
(* of either flavour, after what the buffer already holds, and read back   *)
(* from where it was written.                                              *)
(***************************************************************************)
NameLabels == {<<97>>, <<66>>, <<97, 66>>}

\* names of short labels, and the name made of one label of LabelMax bytes
NameInputs ==
    UNION {[1..n -> NameLabels] : n \in 0..MaxNameLabels}
        \cup {<<[j \in 1..LabelMax |-> 97]>>}

\* the labels joined with '.', as the String the caller holds
RECURSIVE JoinDot(_)
JoinDot(labels) ==
    IF labels = <<>> THEN <<>>
    ELSE IF Len(labels) = 1 THEN labels[1]
    ELSE labels[1] \o <<46>> \o JoinDot(Tail(labels))

NameInit ==
    /\ QnameIdle
    /\ CodecIdle
    /\ CacheIdle
    /\ EngineIdle
    /\ NetIdle
    /\ FrameIdle
    /\ npc = "in"
    /\ \E k \in {"array", "vec"}, pre \in {<<>>, <<7>>}, ls \in NameInputs :
          nin = [kind |-> k, pre |-> pre, labels |-> ls]
    /\ nwr = Writer(NewBuffer("vec"))
    /\ nrd = Cursor(NewBuffer("vec"))

\* buf.write_qname(&name)
NameWrite ==
    /\ npc = "in"
    /\ nwr' = WriteQname(Writer([kind |-> nin.kind, buf |-> nin.pre,
                                 pos |-> Len(nin.pre)]),
                         JoinDot(nin.labels))
    /\ npc' = "written"
    /\ UNCHANGED <<nin, nrd, tpc, tbuf, twire, qvars, cvars, kvars, evars, nvars>>

\* buf.seek(start), then buf.read_qname(&mut out)
NameRead ==
    /\ npc = "written"
    /\ nwr.st = "ok"
    /\ nrd' = ReadQname(Cursor([nwr.b EXCEPT !.pos = Len(nin.pre)]))
    /\ npc' = "read"
    /\ UNCHANGED <<nin, nwr, tpc, tbuf, twire, qvars, cvars, kvars, evars, nvars>>

NameNext == NameWrite \/ NameRead

SpecName == NameInit /\ [][NameNext]_vars

(***************************************************************************)
(* C27: name round trip.  For the root name and for every name whose       *)
(* labels have 1 to 63 bytes, write_qname writes each label after its      *)
(* length and then one zero byte, and read_qname on those bytes returns    *)
(* the name in lower case and leaves the cursor after the bytes written.   *)
(***************************************************************************)
NameWire(labels) ==
    Flatten([i \in 1..Len(labels) |-> <<Len(labels[i])>> \o labels[i]]) \o <<0>>

C27_NameRoundTrip ==
    /\ npc \in {"written", "read"} =>
          /\ nwr.st = "ok"
          /\ SubSeq(nwr.b.buf, Len(nin.pre) + 1, nwr.b.pos) = NameWire(nin.labels)
    /\ npc = "read" =>
          /\ nrd.st = "ok"
          /\ nrd.v = LowerAll(JoinDot(nin.labels))
          /\ nrd.b.pos = nwr.b.pos

(***************************************************************************)
(* SpecFrame: VecBuffer::to_socket on messages of up to MaxFrame bytes and *)
(* on messages of 65535, 65536 and 65537 bytes.                            *)
(***************************************************************************)
FrameLens == (0..MaxFrame) \cup {65535, 65536, 65537}

FrameInit ==
    /\ QnameIdle
    /\ CodecIdle
    /\ CacheIdle
    /\ EngineIdle
    /\ NetIdle
    /\ NameIdle
    /\ tpc = "in"
    /\ \E n \in FrameLens, fill \in {0, 255} :
          tbuf = [kind |-> "vec", buf |-> [i \in 1..n |-> fill], pos |-> n]
    /\ twire = <<>>

\* buf.to_socket(&mut socket)
FrameSend ==
    /\ tpc = "in"
    /\ twire' = ToSocket(tbuf.buf)
    /\ tpc' = "sent"
    /\ UNCHANGED <<tbuf, npc, nin, nwr, nrd, qvars, cvars, kvars, evars, nvars>>

FrameNext == FrameSend

SpecFrame == FrameInit /\ [][FrameNext]_vars

(***************************************************************************)
(* C28: what to_socket writes is a 16-bit big-endian length equal to the   *)
(* number of message bytes that follow it, and then every byte of the      *)
(* message.                                                                *)
(***************************************************************************)
C28_FramePrefix ==
    tpc = "sent" =>
        /\ twire[1] * 256 + twire[2] = Len(twire) - 2
        /\ SubSeq(twire, 3, Len(twire)) = tbuf.buf

(***************************************************************************)
(* C29: a truncated datagram fails to decode.  When the bytes received     *)
(* over UDP end before the message their header announces, from_buffer on  *)
(* the fixed buffer returns an error: the handler holds no request, no     *)
(* upstream query is sent and no reply is built for it.                    *)
(***************************************************************************)
\* the bytes received, alone, do not make a message
Truncated(bytes) ==
    FromBuffer([kind |-> "vec", buf |-> bytes, pos |-> 0]).st # "ok"

C29_TruncatedRejected ==
    (req.proto = "UDP" /\ fpc \notin {"idle", "spawned"} /\ Truncated(req.buf)) =>
        /\ fpc = "failed"
        /\ ~reqpkt.some
        /\ stack = <<>>
        /\ sent = 0
        /\ replies = <<>>

====
